---- MODULE Spec2Model ----
(***************************************************************************)
(* promisify-redis (lib/index.js): a Proxy-based adapter that turns the    *)
(* callback convention of the redis library, its clients and its Multi     *)
(* builders into a promise convention.                                     *)
(*                                                                         *)
(* The model keeps a heap of JavaScript objects (the library, clients,     *)
(* builders, the object proxies of lib/index.js and the promises its       *)
(* command wrappers create) and the calls the underlying transport has     *)
(* received, each with the callback it may fire and what it passed to it   *)
(* first.  What an operation returns or throws is the `ret` of the         *)
(* operator that models it; the properties apply these operators in every  *)
(* reachable state.                                                        *)
(*                                                                         *)
(* A proxy of a function (promisifyRedisCommand and its two siblings) is   *)
(* kept as a value <handler, target>: lib/index.js never stores one, and   *)
(* no property below compares two of them.                                 *)
(***************************************************************************)
EXTENDS Integers, Sequences, FiniteSets, TLC

VARIABLES heap, transport

vars == <<heap, transport>>

(* Bounds of the model: the objects on the heap in each of the three
   specifications, the calls the transport has received, the commands a
   builder has queued. *)
MaxObjects == 5
MaxCalls == 2
MaxTxCalls == 1
MaxQueue == 2
MaxChain == 2

(***************************************************************************)
(* JavaScript values.                                                      *)
(***************************************************************************)
Undefined == [t |-> "undefined"]
Null == [t |-> "null"]
Num(n) == [t |-> "number", n |-> n]
Str(s) == [t |-> "string", s |-> s]
Bool(b) == [t |-> "boolean", b |-> b]
Ref(i) == [t |-> "object", id |-> i]
Arr(items) == [t |-> "array", items |-> items]
Fn(name) == [t |-> "function", name |-> name]
FnProxy(handler, target) == [t |-> "fnproxy", handler |-> handler, target |-> target]
Handler(p) == [t |-> "handler", promise |-> p]
(* The queue object a Multi holds in its `queue` property. *)
QueueOf(i) == [t |-> "queue", id |-> i]
Error(cls, message) == [t |-> "error", cls |-> cls, message |-> message]

(* Completion of a call: a returned value or a thrown one. *)
Ret(v) == [thrown |-> FALSE, val |-> v]
Throw(e) == [thrown |-> TRUE, val |-> e]

IsRef(v) == v.t = "object"
IsFunction(v) == v.t \in {"function", "fnproxy", "handler"}
(* What `new Proxy(target, ...)` accepts as a target. *)
IsObject(v) == v.t \in {"object", "array", "error", "queue"} \/ IsFunction(v)

(* The `typeof` operator. *)
TypeOf(v) ==
  CASE v.t = "undefined" -> "undefined"
    [] v.t = "number" -> "number"
    [] v.t = "string" -> "string"
    [] v.t = "boolean" -> "boolean"
    [] IsFunction(v) -> "function"
    [] OTHER -> "object"

(* ToBoolean, as `!client` and `if (err)` apply it. *)
Truthy(v) ==
  CASE v.t \in {"undefined", "null"} -> FALSE
    [] v.t = "number" -> v.n # 0
    [] v.t = "string" -> v.s # ""
    [] v.t = "boolean" -> v.b
    [] OTHER -> TRUE

(* const IS_PROMISIFIED = Symbol('is already promisified'): a key no string
   property name equals. *)
IS_PROMISIFIED == "Symbol(is already promisified)"

(* const redis = require('redis'): the library object, first on the heap. *)
redis == Ref(1)

(* commands.exists(prop) of redis-commands, over the property names of the
   model; the redis library gives a client one method for each. *)
CommandNames == {"set", "get", "exec", "multi"}
commandsExists(prop) == prop \in CommandNames

(***************************************************************************)
(* Heap objects.  `ext` holds own properties assigned after construction   *)
(* (lib/index.js assigns none).                                            *)
(***************************************************************************)
NoExt == [p \in {} |-> Undefined]
LibraryObj == [kind |-> "library", ext |-> NoExt]
ClientObj == [kind |-> "client", ext |-> NoExt]
MultiObj(client, mode) ==
  [kind |-> "multi", client |-> client, mode |-> mode, queue |-> <<>>, ext |-> NoExt]
ProxyObj(handler, target) == [kind |-> "proxy", handler |-> handler, target |-> target]
PromiseObj == [kind |-> "promise", state |-> "pending", value |-> Undefined]

Kind(h, v) == IF IsRef(v) THEN h[v.id].kind ELSE "none"

(* The object a chain of proxies ends in. *)
RECURSIVE Underlying(_, _)
Underlying(h, i) ==
  IF h[i].kind = "proxy" THEN Underlying(h, h[i].target) ELSE i

(***************************************************************************)
(* Property reads.                                                         *)
(***************************************************************************)
(* Reflect.get on an ordinary object of the redis library: an own property,
   then the methods of its prototype. *)
OrdinaryGet(h, i, prop) ==
  LET o == h[i] IN
  IF o.kind \in {"library", "client", "multi"} /\ prop \in DOMAIN o.ext THEN o.ext[prop]
  ELSE IF o.kind = "library" /\ prop \in {"createClient", "addCommand"} THEN Fn(prop)
  ELSE IF o.kind = "client"
          /\ prop \in {"duplicate", "multi", "batch", "on", "once"} \cup CommandNames
    THEN Fn("RedisClient." \o prop)
  ELSE IF o.kind = "multi" /\ prop \in {"set", "get"} THEN Fn("Multi." \o prop)
  ELSE IF o.kind = "multi" /\ prop = "exec" THEN Fn("Multi.exec_" \o o.mode)
  ELSE IF o.kind = "multi" /\ prop = "queue" THEN QueueOf(i)
  ELSE Undefined

(* new Proxy(command, { apply }): a TypeError when the target is no object. *)
ProxyTypeError ==
  Error("TypeError", "Cannot create proxy with a non-object as target or handler")
NewFnProxy(handler, command) ==
  IF IsObject(command) THEN Ret(FnProxy(handler, command)) ELSE Throw(ProxyTypeError)

promisifyRedisCommand(command) == NewFnProxy("command", command)
promisifyCreateClientCommand(command) == NewFnProxy("createClient", command)
promisifyMultiCommand(command) == NewFnProxy("multiCommand", command)

RECURSIVE ReflectGet(_, _, _)

(* A get trap that leaves exec as it is. *)
promisifyMultiGetPlain(h, target, prop) ==
  IF prop = IS_PROMISIFIED THEN Ret(Bool(TRUE)) ELSE ReflectGet(h, target, prop)

(* A get trap that treats a builder like a client: every catalog command is
   promisified. *)
promisifyMultiGetCommands(h, target, prop) ==
  IF prop = IS_PROMISIFIED THEN Ret(Bool(TRUE))
  ELSE LET original == ReflectGet(h, target, prop) IN
    IF original.thrown THEN original
    ELSE IF commandsExists(prop) THEN promisifyRedisCommand(original.val)
    ELSE original

(* The get trap of promisifyMulti. *)
promisifyMultiGet(h, target, prop) ==
  IF prop = IS_PROMISIFIED THEN Ret(Bool(TRUE))
  ELSE LET original == ReflectGet(h, target, prop) IN
    IF original.thrown THEN original
    ELSE IF prop = "exec" THEN promisifyRedisCommand(original.val)
    ELSE original

(* A get trap that promisifies every function of the client. *)
promisifyClientGetAllFunctions(h, target, prop) ==
  IF prop = IS_PROMISIFIED THEN Ret(Bool(TRUE))
  ELSE LET original == ReflectGet(h, target, prop) IN
    IF original.thrown THEN original
    ELSE IF prop = "duplicate" THEN promisifyCreateClientCommand(original.val)
    ELSE IF prop = "multi" \/ prop = "batch" THEN promisifyMultiCommand(original.val)
    ELSE IF IsFunction(original.val) THEN promisifyRedisCommand(original.val)
    ELSE original

(* The get trap of promisifyClient. *)
promisifyClientGet(h, target, prop) ==
  IF prop = IS_PROMISIFIED THEN Ret(Bool(TRUE))
  ELSE LET original == ReflectGet(h, target, prop) IN
    IF original.thrown THEN original
    ELSE IF prop = "duplicate" THEN promisifyCreateClientCommand(original.val)
    ELSE IF prop = "multi" \/ prop = "batch" THEN promisifyMultiCommand(original.val)
    ELSE IF commandsExists(prop) THEN promisifyRedisCommand(original.val)
    ELSE original

(* The get trap of promisifyLibrary. *)
promisifyLibraryGet(h, target, prop) ==
  IF prop = IS_PROMISIFIED THEN Ret(Bool(TRUE))
  ELSE LET original == ReflectGet(h, target, prop) IN
    IF original.thrown THEN original
    ELSE IF prop = "createClient" THEN promisifyCreateClientCommand(original.val)
    ELSE original

(* Reflect.get(target, prop, receiver): the get trap of a proxy, the ordinary
   lookup otherwise. *)
ReflectGet(h, i, prop) ==
  LET o == h[i] IN
  IF o.kind # "proxy" THEN Ret(OrdinaryGet(h, i, prop))
  ELSE IF o.handler = "multi" THEN promisifyMultiGet(h, o.target, prop)
  ELSE IF o.handler = "client" THEN promisifyClientGet(h, o.target, prop)
  ELSE promisifyLibraryGet(h, o.target, prop)

(* value[prop] for any value: a function proxy has no get trap, and neither
   the functions nor the primitives of the model carry the properties read
   here. *)
GetV(h, v, prop) == IF IsRef(v) THEN ReflectGet(h, v.id, prop) ELSE Ret(Undefined)

(***************************************************************************)
(* Object proxies.  Each returns the heap it leaves and its completion.    *)
(***************************************************************************)
NewProxy(h, handler, v) ==
  IF IsRef(v)
    THEN [heap |-> Append(h, ProxyObj(handler, v.id)), ret |-> Ret(Ref(Len(h) + 1))]
    ELSE [heap |-> h, ret |-> Throw(ProxyTypeError)]

(* A promisifyClient that marks the client it wraps. *)
promisifyClientMarking(h, client) ==
  LET r == NewProxy(h, "client", client) IN
  IF r.ret.thrown THEN r
  ELSE [heap |-> [r.heap EXCEPT ![client.id].ext = (IS_PROMISIFIED :> Bool(TRUE))],
        ret |-> r.ret]

promisifyMulti(h, multi) == NewProxy(h, "multi", multi)
promisifyClient(h, client) == NewProxy(h, "client", client)
promisifyLibrary(h, library) == NewProxy(h, "library", library)

(* x instanceof redis.RedisClient, x instanceof redis.Multi: the prototype
   chain of a proxy is its target's. *)
InstanceOf(h, v, kind) == IsRef(v) /\ h[Underlying(h, v.id)].kind = kind

(* A TYPE_ERROR that reports the type of the wrong argument. *)
TYPE_ERROR_OfName(argumentName, expectedType, value) ==
  Error("TypeError",
        "The \"" \o argumentName \o "\" argument must be of type " \o expectedType
          \o ". Received type " \o "string")

(* TYPE_ERROR(argumentName, expectedType, value) *)
TYPE_ERROR(argumentName, expectedType, value) ==
  Error("TypeError",
        "The \"" \o argumentName \o "\" argument must be of type " \o expectedType
          \o ". Received type " \o TypeOf(value))

(* redis.RedisClient.name *)
RedisClientName == "RedisClient"

(* A redisPromisify that does not look for the marker. *)
redisPromisifyRewrapping(h, client) ==
  IF ~Truthy(client)
    THEN [heap |-> h, ret |-> Throw(TYPE_ERROR("client", RedisClientName, client))]
  ELSE IF client = redis THEN promisifyLibrary(h, client)
  ELSE IF InstanceOf(h, client, "client") THEN promisifyClient(h, client)
  ELSE IF InstanceOf(h, client, "multi") THEN promisifyMulti(h, client)
  ELSE [heap |-> h, ret |-> Throw(TYPE_ERROR("client", RedisClientName, client))]

redisPromisify(h, client) ==
  IF ~Truthy(client)
    THEN [heap |-> h, ret |-> Throw(TYPE_ERROR("client", RedisClientName, client))]
  ELSE LET marker == GetV(h, client, IS_PROMISIFIED) IN
    IF marker.thrown THEN [heap |-> h, ret |-> marker]
    ELSE IF Truthy(marker.val) THEN [heap |-> h, ret |-> Ret(client)]
    ELSE IF client = redis THEN promisifyLibrary(h, client)
    ELSE IF InstanceOf(h, client, "client") THEN promisifyClient(h, client)
    ELSE IF InstanceOf(h, client, "multi") THEN promisifyMulti(h, client)
    ELSE [heap |-> h, ret |-> Throw(TYPE_ERROR("client", RedisClientName, client))]

(***************************************************************************)
(* Promises: settled once, by the first call of resolve or reject.         *)
(***************************************************************************)
resolve(h, p, value) ==
  IF h[p].state = "pending"
    THEN [h EXCEPT ![p] = [kind |-> "promise", state |-> "fulfilled", value |-> value]]
    ELSE h
reject(h, p, reason) ==
  IF h[p].state = "pending"
    THEN [h EXCEPT ![p] = [kind |-> "promise", state |-> "rejected", value |-> reason]]
    ELSE h

(* A completion handler that never looks at err. *)
completionHandlerIgnoringError(h, p, err, result) == resolve(h, p, result)

(* (err, result) => { if (err) reject(err) else resolve(result) }, the
   completion handler of the promise p. *)
completionHandler(h, p, err, result) ==
  IF Truthy(err) THEN reject(h, p, err) ELSE resolve(h, p, result)

(***************************************************************************)
(* The redis library, as far as lib/index.js and its tests use it.  `env`  *)
(* is what the library does with the call: "ok", or "throw" for a          *)
(* synchronous exception.                                                  *)
(***************************************************************************)
UserCallback == Fn("userCallback")
LibError == Error("Error", "thrown by redis")

(* The trailing callback of an argument list. *)
Callback(args) ==
  IF Len(args) > 0 /\ IsFunction(args[Len(args)]) THEN args[Len(args)] ELSE Undefined
WithoutCallback(args) ==
  IF Callback(args) = Undefined THEN args ELSE SubSeq(args, 1, Len(args) - 1)

Sent(name, this, args, queue) ==
  [fn |-> name, this |-> this, argv |-> args, cb |-> Callback(args),
   queue |-> queue, first |-> <<>>]

Native(h, tr, name, this, args, env) ==
  IF env = "throw" THEN [heap |-> h, transport |-> tr, ret |-> Throw(LibError)]
  ELSE IF name = "createClient"
    THEN [heap |-> Append(h, ClientObj), transport |-> tr, ret |-> Ret(Ref(Len(h) + 1))]
  ELSE IF name = "RedisClient.duplicate"
    (* new RedisClient(...); with a callback the client is handed to the
       callback later and the call returns undefined. *)
    THEN [heap |-> Append(h, ClientObj), transport |-> tr,
          ret |-> IF Callback(args) = Undefined THEN Ret(Ref(Len(h) + 1)) ELSE Ret(Undefined)]
  ELSE IF name \in {"RedisClient.multi", "RedisClient.batch"}
    (* new Multi(this, args) *)
    THEN [heap |-> Append(h, MultiObj(this, IF name = "RedisClient.multi"
                                              THEN "transaction" ELSE "batch")),
          transport |-> tr, ret |-> Ret(Ref(Len(h) + 1))]
  ELSE IF name \in {"RedisClient.set", "RedisClient.get"}
    (* internal_send_command(new Command(name, args, callback)) *)
    THEN [heap |-> h, transport |-> Append(tr, Sent(name, this, args, <<>>)),
          ret |-> Ret(Bool(TRUE))]
  ELSE IF name \in {"Multi.set", "Multi.get"}
    (* this.queue.push(new Command(name, args, callback)); return this *)
    THEN LET q == GetV(h, this, "queue").val IN
         [heap |-> [h EXCEPT ![q.id].queue =
                      Append(@, [name |-> name, args |-> WithoutCallback(args)])],
          transport |-> tr, ret |-> Ret(this)]
  ELSE IF name \in {"Multi.exec_transaction", "Multi.exec_batch"}
    THEN LET q == GetV(h, this, "queue").val IN
         [heap |-> h, transport |-> Append(tr, Sent(name, this, args, h[q.id].queue)),
          ret |-> Ret(Bool(TRUE))]
  ELSE [heap |-> h, transport |-> tr, ret |-> Ret(Undefined)]

(***************************************************************************)
(* Calls.                                                                  *)
(***************************************************************************)
RECURSIVE Apply(_, _, _, _, _, _)

(* An apply trap that hands every call the promise of the call before it, as
   long as that one is pending. *)
promisifyRedisCommandApplyShared(h, tr, target, thisArg, argumentsList, env) ==
  LET pending == {i \in 1..Len(h) : h[i].kind = "promise" /\ h[i].state = "pending"}
      p == IF pending = {} THEN Len(h) + 1 ELSE CHOOSE i \in pending : TRUE
      r == Apply(IF pending = {} THEN Append(h, PromiseObj) ELSE h, tr, target, thisArg,
                 Append(argumentsList, Handler(p)), env)
  IN [heap |-> IF r.ret.thrown THEN reject(r.heap, p, r.ret.val) ELSE r.heap,
      transport |-> r.transport,
      ret |-> Ret(Ref(p))]

(* An apply trap that fails with an error of its own when the call throws. *)
promisifyRedisCommandApplyOwnError(h, tr, target, thisArg, argumentsList, env) ==
  LET p == Len(h) + 1
      r == Apply(Append(h, PromiseObj), tr, target, thisArg,
                 Append(argumentsList, Handler(p)), env)
  IN [heap |-> IF r.ret.thrown
                 THEN reject(r.heap, p, Error("Error", "command failed")) ELSE r.heap,
      transport |-> r.transport,
      ret |-> Ret(Ref(p))]

(* The apply trap of promisifyRedisCommand. *)
promisifyRedisCommandApply(h, tr, target, thisArg, argumentsList, env) ==
  LET p == Len(h) + 1
      r == Apply(Append(h, PromiseObj), tr, target, thisArg,
                 Append(argumentsList, Handler(p)), env)
  IN [heap |-> IF r.ret.thrown THEN reject(r.heap, p, r.ret.val) ELSE r.heap,
      transport |-> r.transport,
      ret |-> Ret(Ref(p))]

(* An apply trap that hands back what the library returned. *)
promisifyCreateClientCommandApplyUnwrapped(h, tr, target, thisArg, argumentsList, env) ==
  Apply(h, tr, target, thisArg, argumentsList, env)

(* The apply trap of promisifyCreateClientCommand. *)
promisifyCreateClientCommandApply(h, tr, target, thisArg, argumentsList, env) ==
  LET r == Apply(h, tr, target, thisArg, argumentsList, env) IN
  IF r.ret.thrown THEN r
  ELSE LET w == promisifyClient(r.heap, r.ret.val) IN
       [heap |-> w.heap, transport |-> r.transport, ret |-> w.ret]

(* The apply trap of promisifyMultiCommand. *)
promisifyMultiCommandApply(h, tr, target, thisArg, argumentsList, env) ==
  LET r == Apply(h, tr, target, thisArg, argumentsList, env) IN
  IF r.ret.thrown THEN r
  ELSE LET w == promisifyMulti(r.heap, r.ret.val) IN
       [heap |-> w.heap, transport |-> r.transport, ret |-> w.ret]

(* Reflect.apply(f, this, args) *)
Apply(h, tr, f, this, args, env) ==
  IF f.t = "function" THEN Native(h, tr, f.name, this, args, env)
  ELSE IF f.t = "handler"
    THEN [heap |-> completionHandler(h, f.promise, args[1], args[2]),
          transport |-> tr, ret |-> Ret(Undefined)]
  ELSE IF f.handler = "command"
    THEN promisifyRedisCommandApply(h, tr, f.target, this, args, env)
  ELSE IF f.handler = "createClient"
    THEN promisifyCreateClientCommandApply(h, tr, f.target, this, args, env)
  ELSE promisifyMultiCommandApply(h, tr, f.target, this, args, env)

(***************************************************************************)
(* What the caller and the transport may do.                               *)
(***************************************************************************)
Hello == Str("hello")
World == Str("world")

(* The library function a (possibly proxied) function ends in. *)
RECURSIVE NativeOf(_)
NativeOf(f) == IF f.t = "fnproxy" THEN NativeOf(f.target) ELSE f

(* The argument lists the caller passes to each library function. *)
ArgLists(name) ==
  CASE name = "createClient" -> {<<>>}
    [] name = "RedisClient.duplicate" -> {<<>>, <<UserCallback>>}
    [] name \in {"RedisClient.multi", "RedisClient.batch"} -> {<<>>}
    [] name = "RedisClient.set" -> {<<Hello, World>>, <<Hello, World, UserCallback>>}
    [] name = "RedisClient.get" -> {<<Hello>>}
    [] name = "Multi.set" -> {<<Hello, World>>}
    [] name = "Multi.get" -> {<<Hello>>}
    [] name \in {"Multi.exec_transaction", "Multi.exec_batch"} -> {<<>>, <<UserCallback>>}
    [] OTHER -> {}

PropNames ==
  {IS_PROMISIFIED, "createClient", "addCommand", "duplicate", "multi", "batch",
   "set", "get", "on", "once", "exec", "queue"}

Primitives ==
  {Undefined, Null, Num(0), Num(7), Str(""), Hello, Bool(FALSE), Bool(TRUE)}

(* The reply of the server to one command. *)
Reply(name) == IF name \in {"RedisClient.set", "Multi.set"} THEN Str("OK") ELSE World
ReplyError == Error("ReplyError", "ERR wrong number of arguments for 'set' command")

(* What the transport may pass to the callback of a call it received: an
   error, or the reply (for exec: one reply per queued command). *)
Success(e) ==
  IF e.fn \in {"Multi.exec_transaction", "Multi.exec_batch"}
    THEN Arr([k \in 1..Len(e.queue) |-> Reply(e.queue[k].name)])
    ELSE Reply(e.fn)
Outcomes(e) ==
  {[err |-> Null, result |-> Success(e)], [err |-> ReplyError, result |-> Undefined]}

Fits(h, tr, bound, calls) ==
  /\ Cardinality({i \in 1..Len(h) : h[i].kind # "promise"}) <= bound
  /\ Len(tr) <= calls
  /\ Cardinality({i \in 1..Len(h) : h[i].kind = "promise"}) <= calls
  /\ \A i \in 1..Len(h) : h[i].kind = "multi" => Len(h[i].queue) <= MaxQueue

Objects == 1..Len(heap)
Refs == {Ref(i) : i \in Objects}
(* Every function the caller can read off an object. *)
Functions ==
  {UserCallback} \cup
  {v \in {ReflectGet(heap, i, prop).val : i \in Objects, prop \in PropNames} : IsFunction(v)}
(* What the caller may pass to redisPromisify: primitives, an object of no
   redis type (here an empty array), functions, and every object it holds. *)
EmptyArray == Arr(<<>>)
Inputs == Primitives \cup {EmptyArray} \cup Functions \cup Refs

(* const redis = require('redis') *)
Init ==
  /\ heap = <<LibraryObj>>
  /\ transport = <<>>

(* const client = redisPromisify(redis.createClient()) *)
InitClient ==
  /\ heap = <<LibraryObj, ClientObj, ProxyObj("client", 2)>>
  /\ transport = <<>>

(* const multi = redisPromisify(redis).createClient().multi(), or
   const multi = redisPromisify(redis.createClient().batch()) *)
InitMulti ==
  /\ \/ heap = <<LibraryObj, ProxyObj("library", 1), ClientObj, ProxyObj("client", 3),
                 MultiObj(Ref(4), "transaction"), ProxyObj("multi", 5)>>
     \/ heap = <<LibraryObj, ClientObj, MultiObj(Ref(2), "batch"), ProxyObj("multi", 3)>>
  /\ transport = <<>>

(* redisPromisify(x) *)
Promisify(bound, x) ==
  LET r == redisPromisify(heap, x) IN
  /\ Len(r.heap) <= bound
  /\ heap' = r.heap
  /\ UNCHANGED transport

(* o[prop]: a read leaves every object as it is. *)
Read(i, prop) ==
  /\ ~ReflectGet(heap, i, prop).thrown
  /\ UNCHANGED vars

(* o[prop](...args), for the library functions `names`. *)
Call(bound, calls, names, i, prop, env) ==
  LET f == ReflectGet(heap, i, prop) IN
  /\ ~f.thrown
  /\ IsFunction(f.val)
  /\ NativeOf(f.val).name \in names
  /\ \E args \in ArgLists(NativeOf(f.val).name) :
       LET r == Apply(heap, transport, f.val, Ref(i), args, env) IN
       /\ Fits(r.heap, r.transport, bound, calls)
       /\ heap' = r.heap
       /\ transport' = r.transport

(* The transport calls the callback of the j-th call it received, once or
   again; `first` keeps what it passed first to a completion handler. *)
Fire(j) ==
  LET e == transport[j] IN
  /\ e.cb # Undefined
  /\ \E o \in Outcomes(e) :
       LET r == Apply(heap, transport, e.cb, Undefined, <<o.err, o.result>>, "ok") IN
       /\ heap' = r.heap
       /\ transport' = [transport EXCEPT
                          ![j].first = IF @ = <<>> /\ e.cb.t = "handler" THEN <<o>> ELSE @]

FactoryNames ==
  {"createClient", "RedisClient.duplicate", "RedisClient.multi", "RedisClient.batch"}
CommandFns == {"RedisClient.set", "RedisClient.get"}
BuilderNames ==
  {"Multi.set", "Multi.get", "Multi.exec_transaction", "Multi.exec_batch"}
Envs == {"ok", "throw"}

(* Wrapping: the library, its clients and their builders. *)
Next ==
  \/ \E x \in Inputs : Promisify(MaxObjects, x)
  \/ \E i \in Objects, prop \in PropNames : Read(i, prop)
  \/ \E i \in Objects, prop \in PropNames, env \in Envs :
       Call(MaxObjects, 0, FactoryNames, i, prop, env)

Spec == Init /\ [][Next]_vars

(* Commands on a client and on its wrapper, and their completion. *)
NextCmd ==
  \/ \E i \in Objects, prop \in PropNames, env \in Envs :
       Call(Len(heap), MaxCalls, CommandFns, i, prop, env)
  \/ \E j \in 1..Len(transport) : Fire(j)

SpecCmd == InitClient /\ [][NextCmd]_vars

(* A builder and its wrapper: queuing, exec and its completion. *)
NextTx ==
  \/ \E i \in Objects, prop \in PropNames, env \in Envs :
       Call(Len(heap), MaxTxCalls, BuilderNames, i, prop, env)
  \/ \E j \in 1..Len(transport) : Fire(j)

SpecTx == InitMulti /\ [][NextTx]_vars

(***************************************************************************)
(* Properties.                                                             *)
(***************************************************************************)
Proxies == {i \in Objects : heap[i].kind = "proxy"}
Wrappers(handler) == {i \in Proxies : heap[i].handler = handler}
Originals == Objects \ Proxies
IsPromise(h, v) == IsRef(v) /\ v.id \in 1..Len(h) /\ h[v.id].kind = "promise"

(* C1. Idempotence: redisPromisify of an object that redisPromisify, or a
   wrapped createClient, duplicate, multi or batch, has handed out returns
   that very object and creates nothing, and no wrapper wraps a wrapper. *)
Idempotence ==
  \A w \in Proxies :
    /\ redisPromisify(heap, Ref(w)) = [heap |-> heap, ret |-> Ret(Ref(w))]
    /\ heap[heap[w].target].kind # "proxy"

(* A wrapped library and a wrapped client are on the heap, and wrapping the
   wrapped client again hands it back. *)
IdempotenceWitness ==
  \E l \in Wrappers("library"), c \in Wrappers("client") :
    redisPromisify(heap, Ref(c)).ret = Ret(Ref(c))

(* C3. Transitive wrapping: whatever createClient on a wrapped library, and
   duplicate, multi or batch on a wrapped client, hands back is a wrapper of
   the object the library made (a client wrapper for createClient and
   duplicate, a builder wrapper for multi and batch) and answers true to the
   marker probe; this holds for every wrapper, however deep in a chain of
   such calls it was made. *)
TransitiveWrapping ==
  \A w \in Proxies, prop \in {"createClient", "duplicate", "multi", "batch"} :
    LET f == ReflectGet(heap, w, prop)
        offered == \/ heap[w].handler = "library" /\ prop = "createClient"
                   \/ heap[w].handler = "client" /\ prop # "createClient"
    IN offered =>
         /\ ~f.thrown /\ IsFunction(f.val)
         /\ \A args \in ArgLists(NativeOf(f.val).name) :
              LET r == Apply(heap, transport, f.val, Ref(w), args, "ok") IN
              ~r.ret.thrown =>
                /\ IsRef(r.ret.val)
                /\ r.heap[r.ret.val.id] =
                     ProxyObj(IF prop \in {"multi", "batch"} THEN "multi" ELSE "client",
                              Len(heap) + 1)
                /\ r.heap[Len(heap) + 1].kind =
                     (IF prop \in {"multi", "batch"} THEN "multi" ELSE "client")
                /\ GetV(r.heap, r.ret.val, IS_PROMISIFIED) = Ret(Bool(TRUE))

(* A builder that multi() or batch() made on a wrapped client (its client is
   that wrapper) is on the heap, wrapped. *)
TransitiveWrappingWitness ==
  \E m \in Objects, w \in Wrappers("multi") :
    /\ heap[m].kind = "multi"
    /\ heap[m].client.id \in Wrappers("client")
    /\ heap[w].target = m

(* C5. Non-mutation: redisPromisify changes no object that exists (it only
   adds a proxy); the originals keep the properties they were made with and
   never answer true to the marker probe; and a command called on an
   original client takes the caller's callback and returns no promise. *)
NonMutation ==
  /\ \A x \in Inputs :
       SubSeq(redisPromisify(heap, x).heap, 1, Len(heap)) = heap
  /\ \A i \in Originals :
       /\ heap[i].ext = NoExt
       /\ ReflectGet(heap, i, IS_PROMISIFIED) = Ret(Undefined)
       /\ heap[i].kind = "client" =>
            LET r == Apply(heap, transport, ReflectGet(heap, i, "set").val, Ref(i),
                           <<Hello, World, UserCallback>>, "ok")
            IN /\ r.heap = heap
               /\ ~IsPromise(r.heap, r.ret.val)
               /\ r.transport =
                    Append(transport,
                           Sent("RedisClient.set", Ref(i), <<Hello, World, UserCallback>>, <<>>))

(* A client and a builder of it have both been wrapped, and are as the
   library made them. *)
NonMutationWitness ==
  \E c \in Wrappers("client"), m \in Wrappers("multi") :
    /\ heap[heap[m].target].client = Ref(heap[c].target)
    /\ heap[heap[c].target] = ClientObj

(* The properties each kind of wrapper intercepts. *)
Intercepted(handler) ==
  {IS_PROMISIFIED} \cup
    (CASE handler = "library" -> {"createClient"}
       [] handler = "client" -> {"duplicate", "multi", "batch"} \cup CommandNames
       [] handler = "multi" -> {"exec"})

(* C6. Pass-through identity: a property outside the intercepted set of a
   wrapper reads, on the wrapper, as the very value it reads as on the
   wrapped object; on and once of a client are among them. *)
PassThrough ==
  \A w \in Proxies :
    \A prop \in PropNames \ Intercepted(heap[w].handler) :
      ReflectGet(heap, w, prop) = ReflectGet(heap, heap[w].target, prop)

(* A wrapped client whose on and once are the functions of the client, and a
   wrapped library whose addCommand is the function of the library. *)
PassThroughWitness ==
  /\ \E c \in Wrappers("client") :
       /\ ReflectGet(heap, c, "on") = Ret(Fn("RedisClient.on"))
       /\ ReflectGet(heap, c, "once") = Ret(Fn("RedisClient.once"))
  /\ \E l \in Wrappers("library") :
       ReflectGet(heap, l, "addCommand") = Ret(Fn("addCommand"))

(* The message of the argument-type error for a value of type T. *)
ArgumentTypeMessage(T) ==
  "The \"client\" argument must be of type RedisClient. Received type " \o T

(* What redisPromisify accepts: a wrapper, the library, a client, a builder. *)
Accepted(x) ==
  /\ IsRef(x)
  /\ \/ x.id \in Proxies
     \/ x = redis
     \/ heap[x.id].kind \in {"client", "multi"}

(* C7. Invalid input: redisPromisify throws a TypeError, with the message
   naming the type of the value, and creates nothing, for a value that is
   falsy or is neither a wrapper, the library, a client nor a builder; for
   every other value it returns. *)
InvalidInput ==
  /\ \A x \in Inputs :
       LET r == redisPromisify(heap, x) IN
       IF ~Truthy(x) \/ ~Accepted(x)
         THEN /\ r.ret = Throw(Error("TypeError", ArgumentTypeMessage(TypeOf(x))))
              /\ r.heap = heap
         ELSE ~r.ret.thrown
  /\ redisPromisify(heap, Undefined).ret.val.message =
       "The \"client\" argument must be of type RedisClient. Received type undefined"
  /\ redisPromisify(heap, Num(7)).ret.val.message =
       "The \"client\" argument must be of type RedisClient. Received type number"
  /\ redisPromisify(heap, Null).ret.val.message =
       "The \"client\" argument must be of type RedisClient. Received type object"
  /\ redisPromisify(heap, UserCallback).ret.val.message =
       "The \"client\" argument must be of type RedisClient. Received type function"

(* The caller holds a builder, a wrapper, and a promisified command it read
   off a wrapper: the first two are accepted, the last is refused. *)
InvalidInputWitness ==
  /\ \E m \in Originals : heap[m].kind = "multi" /\ ~redisPromisify(heap, Ref(m)).ret.thrown
  /\ \E f \in Functions : f.t = "fnproxy" /\ redisPromisify(heap, f).ret.thrown

(* The methods each kind of wrapper wraps. *)
WrappedMethods(handler) ==
  CASE handler = "library" -> {"createClient"}
    [] handler = "client" -> {"duplicate", "multi", "batch", "set", "get"}
    [] handler = "multi" -> {"exec"}
PromisifiedMethods(handler) == WrappedMethods(handler) \cap {"set", "get", "exec"}

Fulfilled(value) == [kind |-> "promise", state |-> "fulfilled", value |-> value]
Rejected(reason) == [kind |-> "promise", state |-> "rejected", value |-> reason]

(* What a completion handler may be called with, and the promise expected
   then: failed with err when err is an error, fulfilled with result
   when err is null or undefined. *)
HandlerArgs ==
  {[err |-> Null, result |-> Str("OK")], [err |-> Undefined, result |-> World],
   [err |-> ReplyError, result |-> Undefined], [err |-> LibError, result |-> World]}
Settled(o) == IF o.err.t = "error" THEN Rejected(o.err) ELSE Fulfilled(o.result)

(* C2. Command Wrapper settlement: a call of a wrapped command (set or get
   on a wrapped client, exec on a wrapped builder) calls the original
   function, once, with the caller's arguments followed by one completion
   handler, and returns a new pending promise; the first call of that
   handler fails the promise with err itself when err is an error, and
   fulfils it with result otherwise. *)
CommandSettlement ==
  /\ \A w \in Proxies :
       \A prop \in PromisifiedMethods(heap[w].handler) :
         LET f == ReflectGet(heap, w, prop) IN
         /\ ~f.thrown /\ IsFunction(f.val)
         /\ \A args \in ArgLists(NativeOf(f.val).name) :
              LET p == Len(heap) + 1
                  r == Apply(heap, transport, f.val, Ref(w), args, "ok")
                  e == r.transport[Len(r.transport)]
              IN /\ r.ret = Ret(Ref(p))
                 /\ r.heap = Append(heap, PromiseObj)
                 /\ Len(r.transport) = Len(transport) + 1
                 /\ e.fn = OrdinaryGet(heap, heap[w].target, prop).name
                 /\ e.this = Ref(w)
                 /\ e.argv = Append(args, Handler(p))
                 /\ \A o \in HandlerArgs :
                      Apply(r.heap, r.transport, Handler(p), Undefined,
                            <<o.err, o.result>>, "ok").heap = Append(heap, Settled(o))
  /\ \A j \in 1..Len(transport) :
       (transport[j].cb.t = "handler" /\ transport[j].first # <<>>) =>
         heap[transport[j].cb.promise] = Settled(transport[j].first[1])

(* The transport has failed a wrapped exec whose builder held a command, and
   its promise has failed with the error of the transport. *)
CommandSettlementWitness ==
  \E j \in 1..Len(transport) :
    /\ transport[j].cb.t = "handler"
    /\ transport[j].queue # <<>>
    /\ transport[j].first = <<[err |-> ReplyError, result |-> Undefined]>>
    /\ heap[transport[j].cb.promise] = Rejected(ReplyError)

(* recv.c1(...).c2(...)...: each queuing call is made on what the call
   before it returned. *)
RECURSIVE Chain(_, _, _, _)
Chain(h, tr, recv, cmds) ==
  IF cmds = <<>> THEN [heap |-> h, transport |-> tr, ret |-> Ret(recv)]
  ELSE LET f == GetV(h, recv, Head(cmds)) IN
    IF f.thrown THEN [heap |-> h, transport |-> tr, ret |-> f]
    ELSE IF ~IsFunction(f.val) \/ NativeOf(f.val).name \notin {"Multi.set", "Multi.get"}
      THEN [heap |-> h, transport |-> tr,
            ret |-> Throw(Error("TypeError", Head(cmds) \o " is not a function"))]
    ELSE LET r == Apply(h, tr, f.val, recv,
                        CHOOSE args \in ArgLists(NativeOf(f.val).name) : TRUE, "ok")
         IN IF r.ret.thrown THEN r ELSE Chain(r.heap, r.transport, r.ret.val, Tail(cmds))

Chains == UNION {[1..n -> {"set", "get"}] : n \in 0..MaxChain}

(* C4. Transaction round-trip: on a wrapped builder, after any chain of
   queuing calls, exec at the end of the chain returns a pending promise
   (its callback is the completion handler of that promise), and when the
   transport replies the promise is fulfilled with one reply per queued
   command, in the order queued: those the builder already held, then those
   of the chain. *)
RoundTrip ==
  /\ \A w \in Wrappers("multi"), cmds \in Chains :
       LET queued == heap[heap[w].target].queue
           c == Chain(heap, transport, Ref(w), cmds)
           f == GetV(c.heap, c.ret.val, "exec")
           p == Len(c.heap) + 1
           r == Apply(c.heap, c.transport, f.val, c.ret.val, <<>>, "ok")
           e == r.transport[Len(r.transport)]
           done == Apply(r.heap, r.transport, e.cb, Undefined, <<Null, Success(e)>>, "ok")
           replies == [k \in 1..(Len(queued) + Len(cmds)) |->
                         IF k <= Len(queued) THEN Reply(queued[k].name)
                         ELSE Reply("Multi." \o cmds[k - Len(queued)])]
       IN /\ ~c.ret.thrown
          /\ ~f.thrown /\ IsFunction(f.val)
          /\ r.ret = Ret(Ref(p))
          /\ r.heap[p] = PromiseObj
          /\ e.cb = Handler(p)
          /\ done.heap[p] = Fulfilled(Arr(replies))
          /\ (queued = <<>> /\ cmds = <<"set", "get">>) =>
               done.heap[p] = Fulfilled(Arr(<<Str("OK"), Str("world")>>))
  /\ \A j \in 1..Len(transport) :
       LET e == transport[j] IN
       (e.cb.t = "handler" /\ e.first # <<>> /\ e.first[1].err = Null) =>
         /\ heap[e.cb.promise].state = "fulfilled"
         /\ heap[e.cb.promise].value.t = "array"
         /\ Len(heap[e.cb.promise].value.items) = Len(e.queue)
         /\ \A k \in 1..Len(e.queue) :
              heap[e.cb.promise].value.items[k] = Reply(e.queue[k].name)

(* A set and then a get were queued, exec on the wrapper was answered, and
   its promise holds the status of the set and the value of the get. *)
RoundTripWitness ==
  \E j \in 1..Len(transport) :
    /\ transport[j].cb.t = "handler"
    /\ transport[j].this.id \in Wrappers("multi")
    /\ Len(transport[j].queue) = 2
    /\ transport[j].queue[1].name = "Multi.set" /\ transport[j].queue[2].name = "Multi.get"
    /\ heap[transport[j].cb.promise] = Fulfilled(Arr(<<Str("OK"), Str("world")>>))

(* C8, as stated. Builder chaining identity: a queuing method of a wrapped
   builder is the method of the builder, and called on the wrapper it
   returns the original builder, on whose queue the command is then found. *)
ChainingReturnsOriginal ==
  \A w \in Wrappers("multi"), prop \in {"set", "get"} :
    LET u == heap[w].target
        f == ReflectGet(heap, w, prop)
    IN /\ f = ReflectGet(heap, u, prop)
       /\ \A args \in ArgLists(NativeOf(f.val).name) :
            LET r == Apply(heap, transport, f.val, Ref(w), args, "ok") IN
            /\ r.ret = Ret(Ref(u))
            /\ r.heap[u].queue = Append(heap[u].queue, [name |-> f.val.name, args |-> args])

(* C8, amended. A queuing method of a wrapped builder is the method of the
   builder, and called on the wrapper it returns its receiver, the wrapper,
   while the command is appended to the queue of the original builder and
   nothing else changes. *)
ChainingOnWrapper ==
  \A w \in Wrappers("multi"), prop \in {"set", "get"} :
    LET u == heap[w].target
        f == ReflectGet(heap, w, prop)
    IN /\ f = ReflectGet(heap, u, prop)
       /\ f = Ret(Fn("Multi." \o prop))
       /\ \A args \in ArgLists(NativeOf(f.val).name) :
            LET r == Apply(heap, transport, f.val, Ref(w), args, "ok") IN
            /\ r.ret = Ret(Ref(w))
            /\ r.heap = [heap EXCEPT ![u].queue =
                           Append(@, [name |-> f.val.name, args |-> args])]
            /\ r.transport = transport

(* The original builder of a wrapper holds a set and then a get. *)
ChainingOnWrapperWitness ==
  \E w \in Wrappers("multi") :
    /\ Len(heap[heap[w].target].queue) = 2
    /\ heap[heap[w].target].queue[1].name = "Multi.set"
    /\ heap[heap[w].target].queue[2].name = "Multi.get"

(* C10, as stated. Exception pass-through: when the library function behind
   a wrapped method throws, the call of the wrapped method throws that same
   value, as the call of the original method does; and a wrapped method
   throws nothing when the library function does not throw. *)
ExceptionsAreThrown ==
  \A w \in Proxies :
    \A prop \in WrappedMethods(heap[w].handler) :
      LET f == ReflectGet(heap, w, prop).val
          g == ReflectGet(heap, heap[w].target, prop).val
      IN \A args \in ArgLists(NativeOf(f).name) :
           /\ Apply(heap, transport, f, Ref(w), args, "throw").ret =
                Apply(heap, transport, g, Ref(heap[w].target), args, "throw").ret
           /\ Apply(heap, transport, f, Ref(w), args, "throw").ret = Throw(LibError)
           /\ ~Apply(heap, transport, f, Ref(w), args, "ok").ret.thrown

(* C10, amended. When the library function behind a wrapped method throws:
   createClient, duplicate, multi and batch throw that same value and change
   nothing; a wrapped command or exec does not throw but returns a promise
   that has failed with that same value.  When the library function does
   not throw, the wrapped method throws only where the library returned no
   object to wrap (duplicate called with a callback), and then the TypeError
   of the Proxy constructor. *)
ExceptionPassThrough ==
  \A w \in Proxies :
    \A prop \in WrappedMethods(heap[w].handler) :
      LET f == ReflectGet(heap, w, prop).val IN
      \A args \in ArgLists(NativeOf(f).name) :
        LET r == Apply(heap, transport, f, Ref(w), args, "throw")
            ok == Apply(heap, transport, f, Ref(w), args, "ok")
        IN /\ IF prop \in PromisifiedMethods(heap[w].handler)
                THEN /\ r.ret = Ret(Ref(Len(heap) + 1))
                     /\ r.heap = Append(heap, Rejected(LibError))
                     /\ r.transport = transport
                ELSE r = [heap |-> heap, transport |-> transport, ret |-> Throw(LibError)]
           /\ ok.ret.thrown =>
                /\ prop = "duplicate" /\ Callback(args) # Undefined
                /\ ok.ret.val = ProxyTypeError

(* exec of a wrapped builder has thrown: its promise has failed with what
   the library threw, and the transport has received nothing. *)
ExceptionPassThroughWitness ==
  /\ transport = <<>>
  /\ \E p \in Objects : heap[p] = Rejected(LibError)
  /\ Wrappers("library") # {}

(* C9. Independent settlement: the completion handlers the transport holds
   belong to different promises; the promise of a call whose handler has not
   been called is pending, and the promise of a call whose handler has been
   called is settled with what that handler was passed first, whatever was
   passed to it later or to the handlers of other calls; and a wrapped
   command reaches the original at once, after the calls made before it,
   whatever is outstanding. *)
IndependentSettlement ==
  /\ \A j, k \in 1..Len(transport) :
       (j # k /\ transport[j].cb.t = "handler" /\ transport[k].cb.t = "handler") =>
         transport[j].cb.promise # transport[k].cb.promise
  /\ \A j \in 1..Len(transport) :
       transport[j].cb.t = "handler" =>
         heap[transport[j].cb.promise] =
           (IF transport[j].first = <<>> THEN PromiseObj ELSE Settled(transport[j].first[1]))
  /\ \A w \in Wrappers("client"), prop \in {"set", "get"} :
       LET f == ReflectGet(heap, w, prop).val IN
       \A args \in ArgLists(NativeOf(f).name) :
         LET r == Apply(heap, transport, f, Ref(w), args, "ok") IN
         /\ SubSeq(r.transport, 1, Len(transport)) = transport
         /\ r.transport[Len(r.transport)] =
              Sent(NativeOf(f).name, Ref(w), Append(args, Handler(Len(heap) + 1)), <<>>)
         /\ SubSeq(r.heap, 1, Len(heap)) = heap

(* Two wrapped commands were outstanding on one client; the handler of the
   second was called first, with an error, and the handler of the first
   later, with a reply. *)
IndependentSettlementWitness ==
  \E j, k \in 1..Len(transport) :
    /\ j < k
    /\ transport[j].this = transport[k].this
    /\ transport[j].cb.t = "handler" /\ transport[k].cb.t = "handler"
    /\ heap[transport[j].cb.promise].state = "fulfilled"
    /\ heap[transport[k].cb.promise] = Rejected(ReplyError)

====
